---------------------------- MODULE Spec2Model ----------------------------
(* Plugin registry of source/Plugins.cpp: Plugins::Load, LoadSettings,    *)
(* Save, HasChanged, TogglePlugin and PluginDependencies::IsValid.        *)
EXTENDS Integers, Sequences, FiniteSets, TLC

VARIABLES plugins,     \* the registry: plugin name -> Plugin record
          globalFile,  \* Files::Resources() + "plugins.txt"
          localFile,   \* Files::Config() + "plugins.txt"
          last,        \* the call that produced this state, its result and log
          trip,        \* progress of a TogglePlugin, Save, LoadSettings run
                       \* and of a Save, LoadSettings run
          deps,        \* a dependency set handed to IsValid
          verdict      \* what IsValid said about deps

vars == <<plugins, globalFile, localFile, last, trip, deps, verdict>>

-----------------------------------------------------------------------------
(* Strings, files and data nodes.                                          *)

\* A file that does not exist.
NoFile == "<no file>"

\* Result of a call that returns nullptr / nothing.
Null == "<null>"

\* std::string ordering of the strings the model uses, smallest first.
SortedStrings == <<"", "a", "b", "c">>

StrRank(s) == CHOOSE i \in 1..Len(SortedStrings) : SortedStrings[i] = s

StrLess(s, t) == StrRank(s) < StrRank(t)

\* A DataNode: its tokens and its child nodes.
Node(toks, kids) == [tokens |-> toks, children |-> kids]

Leaf(toks) == Node(toks, <<>>)

Size(node) == Len(node.tokens)

\* DataNode::Token(i), i counted from 0.
Token(node, i) == node.tokens[i + 1]

HasChildren(node) == node.children # <<>>

\* DataNode::Value(i): the number a token spells; 0 when it spells none.
Value(node, i) ==
    LET t == Token(node, i)
    IN  CASE t = "0" -> 0
          [] t = "1" -> 1
          [] t = "2" -> 2
          [] OTHER   -> 0

\* Conversion of a double to bool in an assignment.
ToBool(v) == v # 0

\* DataWriter::WriteToken of a bool.
BoolToken(b) == IF b THEN "1" ELSE "0"

\* DataFile(path): the top-level nodes of a file; none when it does not exist.
DataFile(file) == IF file = NoFile THEN <<>> ELSE file

-----------------------------------------------------------------------------
(* Plugin::PluginDependencies                                              *)

NoDependencies ==
    [gameVersion |-> "", required |-> {}, optional |-> {}, conflicted |-> {}]

\* Iteration order of a std::set<string>.
RECURSIVE InOrder(_)
InOrder(S) ==
    IF S = {} THEN <<>>
    ELSE LET m == CHOOSE x \in S : \A y \in S : x = y \/ StrLess(x, y)
         IN  <<m>> \o InOrder(S \ {m})

\* First loop of IsValid: one warning per optional name found in required.
RECURSIVE CheckOptional(_, _, _)
CheckOptional(d, order, i) ==
    IF i > Len(order) THEN <<>>
    ELSE (IF order[i] \in d.required
          THEN <<[kind |-> "optional in required", name |-> order[i]]>>
          ELSE <<>>)
         \o CheckOptional(d, order, i + 1)

\* Second loop of IsValid: acc is the state (isValid, log) before entry i.
RECURSIVE CheckConflicted(_, _, _, _)
\* The loop as it would be if it returned at the first conflict.
CheckConflictedStopsAtFirst(d, order, i, acc) ==
    IF i > Len(order) THEN acc
    ELSE LET dep == order[i]
         IN  IF dep \in d.required
             THEN [isValid |-> FALSE,
                   log |-> Append(acc.log,
                       [kind |-> "conflicted in required", name |-> dep])]
             ELSE IF dep \in d.optional
             THEN [isValid |-> FALSE,
                   log |-> Append(acc.log,
                       [kind |-> "conflicted in optional", name |-> dep])]
             ELSE CheckConflicted(d, order, i + 1, acc)

\* The loop as it would be without the test of the optional names.
CheckConflictedNoOptionalBranch(d, order, i, acc) ==
    IF i > Len(order) THEN acc
    ELSE LET dep == order[i]
             nxt == IF dep \in d.required
                    THEN [isValid |-> FALSE,
                          log |-> Append(acc.log,
                              [kind |-> "conflicted in required", name |-> dep])]
                    ELSE acc
         IN  CheckConflicted(d, order, i + 1, nxt)

CheckConflicted(d, order, i, acc) ==
    IF i > Len(order) THEN acc
    ELSE LET dep == order[i]
             nxt == IF dep \in d.required
                    THEN [isValid |-> FALSE,
                          log |-> Append(acc.log,
                              [kind |-> "conflicted in required", name |-> dep])]
                    ELSE IF dep \in d.optional
                    THEN [isValid |-> FALSE,
                          log |-> Append(acc.log,
                              [kind |-> "conflicted in optional", name |-> dep])]
                    ELSE acc
         IN  CheckConflicted(d, order, i + 1, nxt)

\* PluginDependencies::IsValid with the diagnostics it logs.
DependenciesIsValid(d) ==
    CheckConflicted(d, InOrder(d.conflicted), 1,
        [isValid |-> TRUE, log |-> CheckOptional(d, InOrder(d.optional), 1)])

\* No call of IsValid yet.
NoVerdict == [isValid |-> TRUE, log |-> <<>>]

\* PluginDependencies::IsEmpty
DependenciesIsEmpty(d) ==
    d.required = {} /\ d.optional = {} /\ d.conflicted = {}

-----------------------------------------------------------------------------
(* Plugin and the registry Set<Plugin>.                                    *)

\* A default-constructed Plugin.
DefaultPlugin ==
    [name |-> "", path |-> <<>>, aboutText |-> "", version |-> "",
     authors |-> {}, tags |-> {}, dependencies |-> NoDependencies,
     enabled |-> TRUE, currentState |-> TRUE]

\* Plugin::IsValid
PluginIsValid(p) == p.name # ""

\* The registry before anything was loaded (the map is keyed by name).
EmptySet == [n \in {} |-> DefaultPlugin]

\* Set<Plugin>::Get(name): the entry under name, default-constructed on
\* first use.
Get(ps, name) ==
    IF name \in DOMAIN ps THEN ps
    ELSE [n \in DOMAIN ps \cup {name} |->
             IF n = name THEN DefaultPlugin ELSE ps[n]]

-----------------------------------------------------------------------------
(* The plugin directories on disk. A path is the sequence of its separators *)
(* and of the names between them; every directory path ends in "/".         *)

Dir(d) == <<"/", "p", "/", d, "/">>

\* path + "file"
PathPlus(path, file) == Append(path, file)

FS ==
    \* /p/a/ has no plugin.txt, only the legacy about.txt.
       (PathPlus(Dir("a"), "about.txt") :> "legacy a")
    \* /p/x/ declares the name a, with an optional name that is also required.
    @@ (PathPlus(Dir("x"), "plugin.txt") :>
          << Leaf(<<"name", "a">>),
             Leaf(<<"about", "first">>),
             Leaf(<<"about", "second">>),
             Leaf(<<"version", "1.0">>),
             Node(<<"authors">>, <<Leaf(<<"ann">>), Leaf(<<"bob">>)>>),
             Node(<<"tags">>, <<Leaf(<<"ships">>)>>),
             Node(<<"dependencies">>,
                  << Leaf(<<"game version", "0.10">>),
                     Node(<<"requires">>, <<Leaf(<<"b">>)>>),
                     Node(<<"optional">>, <<Leaf(<<"b">>), Leaf(<<"c">>)>>) >>) >>)
    @@ (PathPlus(Dir("x"), "about.txt") :> "legacy x")
    \* /p/y/ declares the name a and requires what it conflicts with.
    @@ (PathPlus(Dir("y"), "plugin.txt") :>
          << Leaf(<<"name", "a">>),
             Leaf(<<"version", "9">>),
             Node(<<"dependencies">>,
                  << Node(<<"requires">>, <<Leaf(<<"b">>)>>),
                     Node(<<"conflicts">>, <<Leaf(<<"b">>)>>) >>) >>)
    \* /p/b/ has a plugin.txt without a name field.
    @@ (PathPlus(Dir("b"), "plugin.txt") :>
          << Leaf(<<"version", "2">>),
             Leaf(<<"colour", "red">>),
             Node(<<"dependencies">>,
                  << Node(<<"conflicts">>, <<Leaf(<<"a">>)>>),
                     Leaf(<<"suggests", "c">>) >>) >>)
    \* /p/z/ declares the name b and conflicts with an optional name.
    @@ (PathPlus(Dir("z"), "plugin.txt") :>
          << Leaf(<<"name", "b">>),
             Node(<<"dependencies">>,
                  << Node(<<"optional">>, <<Leaf(<<"a">>)>>),
                     Node(<<"conflicts">>, <<Leaf(<<"a">>), Leaf(<<"c">>)>>) >>) >>)
    \* /p/e/ declares a name field whose value is the empty string.
    @@ (PathPlus(Dir("e"), "plugin.txt") :>
          << Leaf(<<"name", "">>), Leaf(<<"version", "3">>) >>)
    \* /p/f/ does the same, with other metadata.
    @@ (PathPlus(Dir("f"), "plugin.txt") :>
          << Leaf(<<"name", "">>), Leaf(<<"about", "nameless">>) >>)

\* /q/b/ is a directory with neither plugin.txt nor about.txt.
BareDir == <<"/", "q", "/", "b", "/">>

\* The directories Load is called for.
PluginPaths ==
    {Dir("a"), Dir("x"), Dir("y"), Dir("b"), Dir("z"), Dir("e"), Dir("f"), BareDir}

\* Files::Exists
FilesExists(path) == path \in DOMAIN FS

\* Files::Read: the content of a file, empty when it cannot be opened.
FilesRead(path) == IF FilesExists(path) THEN FS[path] ELSE ""

-----------------------------------------------------------------------------
(* Plugins::Load                                                            *)

\* string::rfind(c, from), positions counted from 0; -1 is npos.
RECURSIVE RFind(_, _, _)
RFind(s, c, from) ==
    IF from < 0 THEN -1
    ELSE IF from < Len(s) /\ s[from + 1] = c THEN from
    ELSE RFind(s, c, from - 1)

\* string::substr(pos, n)
SubStr(s, pos, n) ==
    LET stop == IF pos + n > Len(s) THEN Len(s) ELSE pos + n
    IN  SubSeq(s, pos + 1, stop)

\* The string a sequence of pieces spells.
RECURSIVE Spell(_)
Spell(s) == IF s = <<>> THEN "" ELSE Head(s) \o Spell(Tail(s))

\* The name of the folder containing the plugin. length() - 2 is unsigned:
\* below 2 it wraps around and rfind searches from the end; npos + 1 is 0.
FolderName(path) ==
    LET from == IF Len(path) >= 2 THEN Len(path) - 2 ELSE Len(path) - 1
        pos  == RFind(path, "/", from) + 1
    IN  Spell(SubStr(path, pos, Len(path) - 1 - pos))

\* The first tokens of the children of a node, as a set.
FirstTokens(node) == {Token(node.children[i], 0) : i \in 1..Len(node.children)}

Unrecognized(node) == [kind |-> "unrecognized attribute", name |-> Token(node, 0)]

\* The children of a "dependencies" node, from child i on.
RECURSIVE ParseDependencies(_, _, _)
ParseDependencies(kids, i, acc) ==
    IF i > Len(kids) THEN acc
    ELSE LET grand == kids[i]
             d == acc.dependencies
             nxt ==
                IF Token(grand, 0) = "game version"
                THEN [acc EXCEPT !.dependencies.gameVersion = Token(grand, 1)]
                ELSE IF Token(grand, 0) = "requires" /\ HasChildren(grand)
                THEN [acc EXCEPT !.dependencies.required =
                                      d.required \cup FirstTokens(grand)]
                ELSE IF Token(grand, 0) = "optional" /\ HasChildren(grand)
                THEN [acc EXCEPT !.dependencies.optional =
                                      d.optional \cup FirstTokens(grand)]
                ELSE IF Token(grand, 0) = "conflicts" /\ HasChildren(grand)
                THEN [acc EXCEPT !.dependencies.conflicted =
                                      d.conflicted \cup FirstTokens(grand)]
                ELSE [acc EXCEPT !.log = Append(@, Unrecognized(grand))]
         IN  ParseDependencies(kids, i + 1, nxt)

\* The loop over the nodes of plugin.txt, from node i on.
RECURSIVE ParsePluginFile(_, _, _)
ParsePluginFile(nodes, i, acc) ==
    IF i > Len(nodes) THEN acc
    ELSE LET child == nodes[i]
             nxt ==
                IF Token(child, 0) = "name" /\ Size(child) >= 2
                THEN [acc EXCEPT !.name = Token(child, 1), !.hasName = TRUE]
                ELSE IF Token(child, 0) = "about" /\ Size(child) >= 2
                THEN [acc EXCEPT !.aboutText = @ \o Token(child, 1) \o "\n"]
                ELSE IF Token(child, 0) = "version" /\ Size(child) >= 2
                THEN [acc EXCEPT !.version = Token(child, 1)]
                ELSE IF Token(child, 0) = "authors" /\ HasChildren(child)
                THEN [acc EXCEPT !.authors = @ \cup FirstTokens(child)]
                ELSE IF Token(child, 0) = "tags" /\ HasChildren(child)
                THEN [acc EXCEPT !.tags = @ \cup FirstTokens(child)]
                ELSE IF Token(child, 0) = "dependencies" /\ HasChildren(child)
                THEN ParseDependencies(child.children, 1, acc)
                ELSE [acc EXCEPT !.log = Append(@, Unrecognized(child))]
         IN  ParsePluginFile(nodes, i + 1, nxt)

\* ReadPlugin as it would be if the warning did not ask Files::Exists.
ReadPluginWarnsWithoutFile(path) ==
    LET pluginFile == PathPlus(path, "plugin.txt")
        nodes == DataFile(IF FilesExists(pluginFile) THEN FS[pluginFile] ELSE NoFile)
        parsed == ParsePluginFile(nodes, 1,
                      [name |-> FolderName(path), hasName |-> FALSE,
                       aboutText |-> "", version |-> "", authors |-> {},
                       tags |-> {}, dependencies |-> NoDependencies,
                       log |-> <<>>])
    IN  IF ~parsed.hasName
        THEN [parsed EXCEPT !.log =
                 Append(@, [kind |-> "missing name", name |-> parsed.name])]
        ELSE parsed

\* Everything Load reads from the directory before it looks at the registry.
ReadPlugin(path) ==
    LET pluginFile == PathPlus(path, "plugin.txt")
        nodes == DataFile(IF FilesExists(pluginFile) THEN FS[pluginFile] ELSE NoFile)
        parsed == ParsePluginFile(nodes, 1,
                      [name |-> FolderName(path), hasName |-> FALSE,
                       aboutText |-> "", version |-> "", authors |-> {},
                       tags |-> {}, dependencies |-> NoDependencies,
                       log |-> <<>>])
    IN  IF FilesExists(pluginFile) /\ ~parsed.hasName
        THEN [parsed EXCEPT !.log =
                 Append(@, [kind |-> "missing name", name |-> parsed.name])]
        ELSE parsed

\* ReadPlugin for each directory Load is called for.
PluginOnDisk == [path \in PluginPaths |-> ReadPlugin(path)]

\* Load as it would be if populating a record also reset its state flags.
LoadResetsState(ps, path) ==
    LET r      == PluginOnDisk[path]
        ps1    == Get(ps, r.name)
        plugin == ps1[r.name]
        v      == DependenciesIsValid(r.dependencies)
    IN  IF PluginIsValid(plugin)
        THEN [plugins |-> ps1, ret |-> Null,
              log |-> Append(r.log, [kind |-> "duplicate name", name |-> r.name])]
        ELSE IF ~v.isValid
        THEN [plugins |-> ps1, ret |-> Null,
              log |-> Append(r.log \o v.log,
                             [kind |-> "invalid dependencies", name |-> r.name])]
        ELSE [plugins |->
                 [ps1 EXCEPT ![r.name] =
                     [DefaultPlugin EXCEPT
                               !.name = r.name,
                               !.path = path,
                               !.aboutText =
                                   IF r.aboutText = ""
                                   THEN FilesRead(PathPlus(path, "about.txt"))
                                   ELSE r.aboutText,
                               !.version = r.version,
                               !.authors = r.authors,
                               !.tags = r.tags,
                               !.dependencies = r.dependencies]],
              ret |-> r.name,
              log |-> r.log \o v.log]

\* Load as it would be if a rejection for invalid dependencies cleaned up by
\* clearing the registry.
LoadRejectClears(ps, path) ==
    LET r      == PluginOnDisk[path]
        ps1    == Get(ps, r.name)
        plugin == ps1[r.name]
        v      == DependenciesIsValid(r.dependencies)
    IN  IF PluginIsValid(plugin)
        THEN [plugins |-> ps1, ret |-> Null,
              log |-> Append(r.log, [kind |-> "duplicate name", name |-> r.name])]
        ELSE IF ~v.isValid
        THEN [plugins |-> EmptySet, ret |-> Null,
              log |-> Append(r.log \o v.log,
                             [kind |-> "invalid dependencies", name |-> r.name])]
        ELSE [plugins |->
                 [ps1 EXCEPT ![r.name] =
                     [@ EXCEPT !.name = r.name,
                               !.path = path,
                               !.aboutText =
                                   IF r.aboutText = ""
                                   THEN FilesRead(PathPlus(path, "about.txt"))
                                   ELSE r.aboutText,
                               !.version = r.version,
                               !.authors = r.authors,
                               !.tags = r.tags,
                               !.dependencies = r.dependencies]],
              ret |-> r.name,
              log |-> r.log \o v.log]

\* Load as it would be if any entry already stored under the name, valid or
\* not, counted as a duplicate.
LoadRejectsExistingEntry(ps, path) ==
    LET r      == PluginOnDisk[path]
        ps1    == Get(ps, r.name)
        plugin == ps1[r.name]
        v      == DependenciesIsValid(r.dependencies)
    IN  IF r.name \in DOMAIN ps
        THEN [plugins |-> ps1, ret |-> Null,
              log |-> Append(r.log, [kind |-> "duplicate name", name |-> r.name])]
        ELSE IF ~v.isValid
        THEN [plugins |-> ps1, ret |-> Null,
              log |-> Append(r.log \o v.log,
                             [kind |-> "invalid dependencies", name |-> r.name])]
        ELSE [plugins |->
                 [ps1 EXCEPT ![r.name] =
                     [@ EXCEPT !.name = r.name,
                               !.path = path,
                               !.aboutText =
                                   IF r.aboutText = ""
                                   THEN FilesRead(PathPlus(path, "about.txt"))
                                   ELSE r.aboutText,
                               !.version = r.version,
                               !.authors = r.authors,
                               !.tags = r.tags,
                               !.dependencies = r.dependencies]],
              ret |-> r.name,
              log |-> r.log \o v.log]

\* Plugins::Load(path) on the registry ps: the registry afterwards, the
\* handle returned (the key of the record, or Null) and what was logged.
Load(ps, path) ==
    LET r      == PluginOnDisk[path]
        ps1    == Get(ps, r.name)
        plugin == ps1[r.name]
        v      == DependenciesIsValid(r.dependencies)
    IN  IF PluginIsValid(plugin)
        THEN [plugins |-> ps1, ret |-> Null,
              log |-> Append(r.log, [kind |-> "duplicate name", name |-> r.name])]
        ELSE IF ~v.isValid
        THEN [plugins |-> ps1, ret |-> Null,
              log |-> Append(r.log \o v.log,
                             [kind |-> "invalid dependencies", name |-> r.name])]
        ELSE [plugins |->
                 [ps1 EXCEPT ![r.name] =
                     [@ EXCEPT !.name = r.name,
                               !.path = path,
                               !.aboutText =
                                   IF r.aboutText = ""
                                   THEN FilesRead(PathPlus(path, "about.txt"))
                                   ELSE r.aboutText,
                               !.version = r.version,
                               !.authors = r.authors,
                               !.tags = r.tags,
                               !.dependencies = r.dependencies]],
              ret |-> r.name,
              log |-> r.log \o v.log]

-----------------------------------------------------------------------------
(* LoadSettings, Save, HasChanged, TogglePlugin                             *)

\* The inner loop of LoadSettingsFromFile over the children of a state node.
RECURSIVE LoadStateChildren(_, _, _)
\* The loop as it would be if it took every child with a second token.
LoadStateChildrenAnyLength(ps, kids, i) ==
    IF i > Len(kids) THEN ps
    ELSE LET child == kids[i]
             ps1 == Get(ps, Token(child, 0))
         IN  LoadStateChildren(
                 IF Size(child) >= 2
                 THEN [ps1 EXCEPT ![Token(child, 0)] =
                          [@ EXCEPT !.enabled = ToBool(Value(child, 1)),
                                    !.currentState = ToBool(Value(child, 1))]]
                 ELSE ps,
                 kids, i + 1)

\* The loop as it would be without the assignment to enabled.
LoadStateChildrenForgetsEnabled(ps, kids, i) ==
    IF i > Len(kids) THEN ps
    ELSE LET child == kids[i]
             ps1 == Get(ps, Token(child, 0))
         IN  LoadStateChildren(
                 IF Size(child) = 2
                 THEN [ps1 EXCEPT ![Token(child, 0)] =
                          [@ EXCEPT !.currentState = ToBool(Value(child, 1))]]
                 ELSE ps,
                 kids, i + 1)

\* The loop as it would be without the assignment to currentState.
LoadStateChildrenForgetsCurrentState(ps, kids, i) ==
    IF i > Len(kids) THEN ps
    ELSE LET child == kids[i]
             ps1 == Get(ps, Token(child, 0))
         IN  LoadStateChildren(
                 IF Size(child) = 2
                 THEN [ps1 EXCEPT ![Token(child, 0)] =
                          [@ EXCEPT !.enabled = ToBool(Value(child, 1))]]
                 ELSE ps,
                 kids, i + 1)

LoadStateChildren(ps, kids, i) ==
    IF i > Len(kids) THEN ps
    ELSE LET child == kids[i]
             ps1 == Get(ps, Token(child, 0))
         IN  LoadStateChildren(
                 IF Size(child) = 2
                 THEN [ps1 EXCEPT ![Token(child, 0)] =
                          [@ EXCEPT !.enabled = ToBool(Value(child, 1)),
                                    !.currentState = ToBool(Value(child, 1))]]
                 ELSE ps,
                 kids, i + 1)

\* The outer loop of LoadSettingsFromFile over the nodes of the file.
RECURSIVE LoadSettingsNodes(_, _, _)
LoadSettingsNodes(ps, nodes, i) ==
    IF i > Len(nodes) THEN ps
    ELSE LoadSettingsNodes(
             IF Token(nodes[i], 0) # "state" THEN ps
             ELSE LoadStateChildren(ps, nodes[i].children, 1),
             nodes, i + 1)

LoadSettingsFromFile(ps, file) == LoadSettingsNodes(ps, DataFile(file), 1)

\* LoadSettings as it would be with the two files read in the other order.
LoadSettingsLocalFirst(ps, global, local) ==
    LoadSettingsFromFile(LoadSettingsFromFile(ps, local), global)

\* Plugins::LoadSettings: the global file, then the local one.
LoadSettings(ps, global, local) ==
    LoadSettingsFromFile(LoadSettingsFromFile(ps, global), local)

\* The entries Save writes under "state", for the keys from position i on.
RECURSIVE SaveEntries(_, _, _)
\* SaveEntries as it would be if it wrote the enabled flag.
SaveEntriesWritesEnabled(ps, order, i) ==
    IF i > Len(order) THEN <<>>
    ELSE (IF PluginIsValid(ps[order[i]])
          THEN <<Leaf(<<order[i], BoolToken(ps[order[i]].enabled)>>)>>
          ELSE <<>>)
         \o SaveEntries(ps, order, i + 1)

\* SaveEntries as it would be without the IsValid test.
SaveEntriesKeepsInvalid(ps, order, i) ==
    IF i > Len(order) THEN <<>>
    ELSE <<Leaf(<<order[i], BoolToken(ps[order[i]].currentState)>>)>>
         \o SaveEntries(ps, order, i + 1)

SaveEntries(ps, order, i) ==
    IF i > Len(order) THEN <<>>
    ELSE (IF PluginIsValid(ps[order[i]])
          THEN <<Leaf(<<order[i], BoolToken(ps[order[i]].currentState)>>)>>
          ELSE <<>>)
         \o SaveEntries(ps, order, i + 1)

\* Save as it would be without the test for an empty registry.
SaveAlwaysWrites(ps, local) ==
    <<Node(<<"state">>, SaveEntries(ps, InOrder(DOMAIN ps), 1))>>

\* Plugins::Save: the local settings file after the call.
Save(ps, local) ==
    IF DOMAIN ps = {} THEN local
    ELSE <<Node(<<"state">>, SaveEntries(ps, InOrder(DOMAIN ps), 1))>>

\* The loop of HasChanged over the records in key order, from position i on.
RECURSIVE HasChangedFrom(_, _, _)
\* The loop as it would be if it looked at valid records only.
HasChangedFromValidOnly(ps, order, i) ==
    IF i > Len(order) THEN FALSE
    ELSE IF /\ PluginIsValid(ps[order[i]])
            /\ ps[order[i]].enabled # ps[order[i]].currentState THEN TRUE
    ELSE HasChangedFrom(ps, order, i + 1)

HasChangedFrom(ps, order, i) ==
    IF i > Len(order) THEN FALSE
    ELSE IF ps[order[i]].enabled # ps[order[i]].currentState THEN TRUE
    ELSE HasChangedFrom(ps, order, i + 1)

\* Plugins::HasChanged
HasChanged(ps) == HasChangedFrom(ps, InOrder(DOMAIN ps), 1)

\* TogglePlugin as it would be if it flipped the persisted flag as well.
TogglePluginBothFlags(ps, name) ==
    LET ps1 == Get(ps, name)
    IN  [ps1 EXCEPT ![name].currentState = ~ps1[name].currentState,
                    ![name].enabled = ~ps1[name].enabled]

\* Plugins::TogglePlugin
TogglePlugin(ps, name) ==
    LET ps1 == Get(ps, name)
    IN  [ps1 EXCEPT ![name].currentState = ~ps1[name].currentState]

-----------------------------------------------------------------------------
(* The settings files found at start-up.                                    *)

GlobalFiles ==
    { NoFile,
      << Node(<<"state">>,
              << Leaf(<<"a", "1">>), Leaf(<<"b", "0">>),
                 Leaf(<<"c">>), Leaf(<<"b", "1", "0">>) >>),
         Node(<<"other">>, << Leaf(<<"b", "1">>) >>) >> }

LocalFiles ==
    { NoFile,
      << Node(<<"state">>,
              << Leaf(<<"a", "0">>), Leaf(<<"", "2">>), Leaf(<<"b", "0", "1">>) >>) >>,
      << Node(<<"state">>, << Leaf(<<"a", "0">>) >>),
         Node(<<"plugins">>, << Leaf(<<"b", "0">>) >>),
         Node(<<"state">>, << Leaf(<<"a", "2">>), Leaf(<<"a">>) >>) >> }

\* The names TogglePlugin is called with.
ToggleNames == {"", "a", "b"}

-----------------------------------------------------------------------------
(* The program: any sequence of calls.                                      *)

Idle == [phase |-> 0, name |-> "", saved |-> 0]

Call(op, arg, ret, log) == [op |-> op, arg |-> arg, ret |-> ret, log |-> log]

Init ==
    /\ plugins = EmptySet
    /\ globalFile \in GlobalFiles
    /\ localFile \in LocalFiles
    /\ last = Call("start", <<>>, Null, <<>>)
    /\ trip = Idle
    /\ deps = NoDependencies
    /\ verdict = NoVerdict

LoadCall ==
    \E path \in PluginPaths :
        LET r == Load(plugins, path)
        IN  /\ plugins' = r.plugins
            /\ last' = Call("Load", path, r.ret, r.log)
            /\ trip' = Idle
            /\ UNCHANGED <<globalFile, localFile, deps, verdict>>

LoadSettingsCall ==
    /\ plugins' = LoadSettings(plugins, globalFile, localFile)
    /\ last' = Call("LoadSettings", <<>>, Null, <<>>)
    /\ trip' = [IF trip.phase = 2 THEN [trip EXCEPT !.phase = 3] ELSE Idle
                   EXCEPT !.saved = IF trip.saved = 1 THEN 2 ELSE 0]
    /\ UNCHANGED <<globalFile, localFile, deps, verdict>>

SaveCall ==
    /\ localFile' = Save(plugins, localFile)
    /\ last' = Call("Save", <<>>, Null, <<>>)
    /\ trip' = [IF trip.phase = 1 THEN [trip EXCEPT !.phase = 2] ELSE Idle
                   EXCEPT !.saved = 1]
    /\ UNCHANGED <<plugins, globalFile, deps, verdict>>

\* A toggle of a loaded plugin that is off, with nothing pending, starts a
\* round trip.
StartsTrip(ps, name) ==
    /\ ~HasChanged(ps)
    /\ name \in DOMAIN ps
    /\ PluginIsValid(ps[name])
    /\ ~ps[name].enabled
    /\ ~ps[name].currentState

TogglePluginCall ==
    \E name \in ToggleNames :
        /\ plugins' = TogglePlugin(plugins, name)
        /\ last' = Call("TogglePlugin", name, Null, <<>>)
        /\ trip' = IF StartsTrip(plugins, name)
                   THEN [phase |-> 1, name |-> name, saved |-> 0] ELSE Idle
        /\ UNCHANGED <<globalFile, localFile, deps, verdict>>

Next == LoadCall \/ LoadSettingsCall \/ SaveCall \/ TogglePluginCall

Spec == Init /\ [][Next]_vars

\* The program as long as TogglePlugin is not called.
NextNoToggle == LoadCall \/ LoadSettingsCall \/ SaveCall

SpecNoToggle == Init /\ [][NextNoToggle]_vars

-----------------------------------------------------------------------------
(* IsValid on its own, over every dependency set with names from DepNames.  *)

NumDepNames == 2

DepNames == {SortedStrings[i] : i \in 2..(NumDepNames + 1)}

DepSets ==
    [gameVersion : {""}, required : SUBSET DepNames,
     optional : SUBSET DepNames, conflicted : SUBSET DepNames]

InitDeps ==
    /\ deps \in DepSets
    /\ verdict = NoVerdict
    /\ plugins = EmptySet
    /\ globalFile = NoFile
    /\ localFile = NoFile
    /\ last = Call("start", <<>>, Null, <<>>)
    /\ trip = Idle

IsValidCall ==
    /\ last.op = "start"
    /\ verdict' = DependenciesIsValid(deps)
    /\ last' = Call("IsValid", <<>>, Null, <<>>)
    /\ UNCHANGED <<plugins, globalFile, localFile, trip, deps>>

NextDeps == IsValidCall

SpecDeps == InitDeps /\ [][NextDeps]_vars

-----------------------------------------------------------------------------
(* Properties of Load.                                                      *)

\* The name a directory resolves to.
ResolvedName(path) == PluginOnDisk[path].name

\* A Load of a directory resolving to name has returned a handle before:
\* only Load sets the path of a record.
Loaded(ps, name) == name \in DOMAIN ps /\ ps[name].path # <<>>

\* The next state was produced by Load(path).
LoadOf(path) == last'.op = "Load" /\ last'.arg = path

\* C1: a Load for a directory resolving to the name of an earlier successful
\* Load returns null and leaves every field of the earlier record as it was,
\* for every resolved name.
C1_DuplicateRejected ==
    [][\A path \in PluginPaths :
          (LoadOf(path) /\ Loaded(plugins, ResolvedName(path)))
              => /\ last'.ret = Null
                 /\ plugins'[ResolvedName(path)] = plugins[ResolvedName(path)]]_vars

\* The dependency set of the directory is invalid.
BadDependencies(path) ==
    ~DependenciesIsValid(PluginOnDisk[path].dependencies).isValid

\* C2: a Load of a plugin with an invalid dependency set returns null and
\* leaves the registry with the same keys and the same records.
C2_NoPartialRecord ==
    [][\A path \in PluginPaths :
          (LoadOf(path) /\ BadDependencies(path))
              => /\ last'.ret = Null
                 /\ plugins' = plugins]_vars

-----------------------------------------------------------------------------
(* Properties of IsValid.                                                   *)

\* C3: IsValid returns false exactly when some conflicted name is also
\* required or optional; an optional/required overlap alone never does it.
C3_IsValidIffNoConflictedOverlap ==
    last.op = "IsValid" =>
        (verdict.isValid <=>
            deps.conflicted \cap (deps.required \cup deps.optional) = {})

\* IsValid has judged a set with a required/conflicted overlap next to an
\* optional/required overlap on another name.
C3_Witness ==
    /\ last.op = "IsValid"
    /\ ~verdict.isValid
    /\ \E n \in deps.required \cap deps.conflicted :
          \E m \in deps.optional \cap deps.required : m # n /\ m \notin deps.conflicted

-----------------------------------------------------------------------------
(* Properties of LoadSettings and Save.                                     *)

\* Every name the model handles.
AllNames == {SortedStrings[i] : i \in 1..Len(SortedStrings)}

\* Positions <<i, j>> of the two-token children j of the state nodes i of a
\* file that start with name.
EntriesFor(file, name) ==
    LET nodes == DataFile(file)
    IN  {p \in UNION {{<<i, j>> : j \in 1..Len(nodes[i].children)} :
                          i \in 1..Len(nodes)} :
            /\ nodes[p[1]].tokens[1] = "state"
            /\ Len(nodes[p[1]].children[p[2]].tokens) = 2
            /\ nodes[p[1]].children[p[2]].tokens[1] = name}

HasEntry(file, name) == EntriesFor(file, name) # {}

\* The boolean of the entry for name that comes last in the file.
SettingIn(file, name) ==
    LET ps == EntriesFor(file, name)
        p  == CHOOSE q \in ps : \A o \in ps :
                  o[1] < q[1] \/ (o[1] = q[1] /\ o[2] <= q[2])
    IN  DataFile(file)[p[1]].children[p[2]].tokens[2] \in {"1", "2"}

\* The record under name has both state flags equal to b.
BothFlags(ps, name, b) ==
    name \in DOMAIN ps /\ ps[name].enabled = b /\ ps[name].currentState = b

\* C4: after LoadSettings, a name with an entry in the local file has both
\* flags equal to the local boolean whatever the global file says; a name
\* with an entry only in the global file has both equal to the global one.
C4_LocalOverridesGlobal ==
    last.op = "LoadSettings" =>
        \A name \in AllNames :
            /\ HasEntry(localFile, name)
                   => BothFlags(plugins, name, SettingIn(localFile, name))
            /\ (~HasEntry(localFile, name) /\ HasEntry(globalFile, name))
                   => BothFlags(plugins, name, SettingIn(globalFile, name))

\* LoadSettings has run on two files that disagree about one name and on a
\* name that only the global file has.
C4_Witness ==
    /\ last.op = "LoadSettings"
    /\ \E name \in AllNames :
          /\ HasEntry(localFile, name) /\ HasEntry(globalFile, name)
          /\ SettingIn(localFile, name) # SettingIn(globalFile, name)
    /\ \E name \in AllNames :
          ~HasEntry(localFile, name) /\ HasEntry(globalFile, name)

\* C5: TogglePlugin(X) of a loaded plugin X that is off, with nothing
\* pending, makes HasChanged true; Save and then LoadSettings leave X with
\* enabled = currentState = true and HasChanged false.
C5_RoundTrip ==
    /\ trip.phase = 1 => HasChanged(plugins)
    /\ trip.phase = 3 =>
          /\ BothFlags(plugins, trip.name, TRUE)
          /\ ~HasChanged(plugins)

\* The three calls of the round trip have run, against a global file that
\* says the plugin is off.
C5_Witness ==
    /\ trip.phase = 3
    /\ last.op = "LoadSettings"
    /\ HasEntry(globalFile, trip.name)
    /\ ~SettingIn(globalFile, trip.name)

\* The children of the state node Save has written.
Written == localFile[1].children

\* C6: Save writes one entry <name> <currentState> per valid record, none
\* for a record with an empty name, in ascending name order.
C6_SaveWritesValidRecords ==
    (last.op = "Save" /\ DOMAIN plugins # {}) =>
        /\ Len(localFile) = 1
        /\ localFile[1].tokens = <<"state">>
        /\ \A name \in DOMAIN plugins :
              PluginIsValid(plugins[name]) =>
                  /\ Cardinality({i \in 1..Len(Written) :
                                     Written[i].tokens[1] = name}) = 1
                  /\ \E i \in 1..Len(Written) :
                        /\ Written[i].children = <<>>
                        /\ Written[i].tokens =
                              <<name, IF plugins[name].currentState
                                      THEN "1" ELSE "0">>
        /\ \A i \in 1..Len(Written) :
              /\ Written[i].tokens[1] \in DOMAIN plugins
              /\ plugins[Written[i].tokens[1]].name # ""
        /\ \A i \in 1..Len(Written) : \A j \in 1..Len(Written) :
              i < j => StrLess(Written[i].tokens[1], Written[j].tokens[1])

\* Save has run on two valid records with pending toggles of opposite sense
\* and a placeholder.
C6_Witness ==
    /\ last.op = "Save"
    /\ \E n \in DOMAIN plugins : plugins[n].name = ""
    /\ \E n \in DOMAIN plugins : \E m \in DOMAIN plugins :
          /\ plugins[n].name # "" /\ plugins[m].name # ""
          /\ plugins[n].currentState /\ ~plugins[n].enabled
          /\ ~plugins[m].currentState /\ plugins[m].enabled

\* C7: Save on a registry without records leaves the local settings file as
\* it was, whether absent or present.
C7_SaveEmptyWritesNothing ==
    [][(last'.op = "Save" /\ DOMAIN plugins = {}) => localFile' = localFile]_vars

\* Save has run on the empty registry with the local file absent.
C7_Witness ==
    last.op = "Save" /\ DOMAIN plugins = {} /\ localFile = NoFile

-----------------------------------------------------------------------------
(* Frame properties of TogglePlugin and Load.                               *)

\* C8: TogglePlugin(name) negates currentState of the record under name,
\* created first if absent, and changes nothing else.
C8_ToggleFrame ==
    [][\A name \in ToggleNames :
          (last'.op = "TogglePlugin" /\ last'.arg = name) =>
              LET before == IF name \in DOMAIN plugins
                            THEN plugins[name] ELSE DefaultPlugin
              IN  /\ DOMAIN plugins' = DOMAIN plugins \cup {name}
                  /\ plugins'[name] =
                        [before EXCEPT !.currentState = ~before.currentState]
                  /\ \A other \in DOMAIN plugins \ {name} :
                        plugins'[other] = plugins[other]
                  /\ globalFile' = globalFile
                  /\ localFile' = localFile]_vars

\* TogglePlugin has run on a loaded plugin that is off, next to another
\* loaded plugin.
C8_Witness ==
    /\ last.op = "TogglePlugin"
    /\ Loaded(plugins, last.arg)
    /\ ~plugins[last.arg].enabled
    /\ plugins[last.arg].currentState
    /\ \E other \in DOMAIN plugins \ {last.arg} : Loaded(plugins, other)

\* C9: no Load, accepted or rejected, changes enabled or currentState of a
\* record already in the registry, a placeholder it populates included.
C9_LoadKeepsState ==
    [][last'.op = "Load" =>
          \A name \in DOMAIN plugins :
              /\ name \in DOMAIN plugins'
              /\ plugins'[name].enabled = plugins[name].enabled
              /\ plugins'[name].currentState = plugins[name].currentState]_vars

\* Load has populated a placeholder that was off and toggled.
C9_Witness ==
    /\ last.op = "Load"
    /\ last.ret = "a"
    /\ ~plugins["a"].enabled
    /\ plugins["a"].currentState

\* C10: a Load that returns null leaves every record under another name as
\* it was, adds no record under another name, and a Load of a directory
\* resolving to another name has the same outcome after it as before it.
C10_RejectionIsolated ==
    [][\A path \in PluginPaths :
          (LoadOf(path) /\ last'.ret = Null) =>
              /\ \A other \in DOMAIN plugins \ {ResolvedName(path)} :
                    other \in DOMAIN plugins' /\ plugins'[other] = plugins[other]
              /\ DOMAIN plugins' \subseteq DOMAIN plugins \cup {ResolvedName(path)}
              /\ \A next \in PluginPaths :
                    ResolvedName(next) # ResolvedName(path) =>
                        (Load(plugins', next).ret = Null
                             <=> Load(plugins, next).ret = Null)]_vars

\* A Load was rejected for its dependencies while a plugin of another name
\* was loaded and a third name was still free.
C10_Witness ==
    /\ last.op = "Load"
    /\ last.ret = Null
    /\ BadDependencies(last.arg)
    /\ ~Loaded(plugins, ResolvedName(last.arg))
    /\ \E other \in DOMAIN plugins :
          other # ResolvedName(last.arg) /\ Loaded(plugins, other)
    /\ \E next \in PluginPaths :
          /\ ResolvedName(next) # ResolvedName(last.arg)
          /\ Load(plugins, next).ret # Null

-----------------------------------------------------------------------------
(* HasChanged.                                                              *)

\* C11: in every reachable state HasChanged() is true exactly when some
\* record, valid or placeholder, has enabled different from currentState.
C11_HasChangedIffSomeRecordDiffers ==
    HasChanged(plugins) <=>
        \E name \in DOMAIN plugins :
            plugins[name].enabled # plugins[name].currentState

\* The only record that differs is a placeholder, stored after a loaded
\* plugin whose flags agree.
C11_Witness ==
    /\ HasChanged(plugins)
    /\ Loaded(plugins, "a")
    /\ "b" \in DOMAIN plugins
    /\ \A name \in DOMAIN plugins :
          plugins[name].enabled # plugins[name].currentState
              <=> (name = "b" /\ plugins[name].name = "")

-----------------------------------------------------------------------------
(* Load of a directory without plugin.txt.                                  *)

\* The directory has no plugin.txt.
NoPluginFile(path) == PathPlus(path, "plugin.txt") \notin DOMAIN FS

\* The trailing directory-name component of a path that ends in "/".
TrailingName(path) == path[Len(path) - 1]

\* The record is what a directory without plugin.txt gives: the directory
\* name, the content of about.txt if there is one, nothing else.
BareRecord(p, path) ==
    /\ p.name = TrailingName(path)
    /\ p.path = path
    /\ p.version = ""
    /\ p.authors = {}
    /\ p.tags = {}
    /\ p.dependencies = NoDependencies
    /\ p.aboutText = IF PathPlus(path, "about.txt") \in DOMAIN FS
                     THEN FS[PathPlus(path, "about.txt")] ELSE ""

NoMissingNameDiagnostic(log) ==
    \A i \in 1..Len(log) : log[i].kind # "missing name"

\* C12 as stated: every Load of a directory without plugin.txt returns a
\* handle to a record named after the directory, with empty version,
\* authors, tags and dependencies, the about.txt content as aboutText, and
\* logs no missing-name diagnostic.
C12_BareDirectoryLoads ==
    [][\A path \in PluginPaths :
          (LoadOf(path) /\ NoPluginFile(path)) =>
              /\ last'.ret = TrailingName(path)
              /\ BareRecord(plugins'[TrailingName(path)], path)
              /\ NoMissingNameDiagnostic(last'.log)]_vars

\* C12 amended: the same, for a Load made while no valid record is stored
\* under the directory's name; a Load made while there is one returns null.
C12_BareDirectoryLoadsUnlessDuplicate ==
    [][\A path \in PluginPaths :
          (LoadOf(path) /\ NoPluginFile(path)) =>
              /\ NoMissingNameDiagnostic(last'.log)
              /\ IF /\ TrailingName(path) \in DOMAIN plugins
                    /\ plugins[TrailingName(path)].name # ""
                 THEN last'.ret = Null
                 ELSE /\ last'.ret = TrailingName(path)
                      /\ BareRecord(plugins'[TrailingName(path)], path)]_vars

\* Both bare directories have been loaded: one with an about.txt, one
\* without.
C12_Witness ==
    /\ last.op = "Load"
    /\ NoPluginFile(last.arg)
    /\ last.ret # Null
    /\ \E n \in DOMAIN plugins : \E m \in DOMAIN plugins :
          /\ Loaded(plugins, n) /\ NoPluginFile(plugins[n].path)
          /\ plugins[n].aboutText # ""
          /\ Loaded(plugins, m) /\ NoPluginFile(plugins[m].path)
          /\ plugins[m].aboutText = ""

-----------------------------------------------------------------------------
(* Diagnostics of IsValid.                                                  *)

\* The log holds a diagnostic of one of the kinds about name.
Reported(log, kinds, name) ==
    \E i \in 1..Len(log) : log[i].kind \in kinds /\ log[i].name = name

\* C13: one call of IsValid logs a diagnostic for every conflicted name that
\* is also required or optional and for every optional name that is also
\* required, and logs nothing when the three sets are pairwise disjoint.
C13_EveryOverlapReported ==
    last.op = "IsValid" =>
        /\ \A name \in deps.conflicted \cap (deps.required \cup deps.optional) :
              Reported(verdict.log,
                  {"conflicted in required", "conflicted in optional"}, name)
        /\ \A name \in deps.optional \cap deps.required :
              Reported(verdict.log, {"optional in required"}, name)
        /\ ( /\ deps.required \cap deps.optional = {}
             /\ deps.required \cap deps.conflicted = {}
             /\ deps.optional \cap deps.conflicted = {} )
              => verdict.log = <<>>

\* IsValid has judged a set in which two conflicted names overlap, one with
\* required and one with optional only.
C13_Witness ==
    /\ last.op = "IsValid"
    /\ \E n \in deps.conflicted \cap deps.required :
          \E m \in (deps.conflicted \cap deps.optional) \ deps.required :
              /\ n # m
              /\ Len(verdict.log) >= 2

-----------------------------------------------------------------------------
(* What LoadSettings leaves alone.                                          *)

\* A record without its two state flags.
Metadata(p) == [p EXCEPT !.enabled = TRUE, !.currentState = TRUE]

\* The name has a two-token entry in a state block of one of the two files.
HasSetting(name) == HasEntry(globalFile, name) \/ HasEntry(localFile, name)

\* C14: LoadSettings changes nothing but enabled and currentState of the
\* records whose names have a two-token entry in a state block of one of
\* the files: other records keep every field, no metadata changes, and
\* entries of another length and nodes other than state create no record.
C14_LoadSettingsFrame ==
    [][last'.op = "LoadSettings" =>
          /\ \A name \in DOMAIN plugins :
                /\ name \in DOMAIN plugins'
                /\ Metadata(plugins'[name]) = Metadata(plugins[name])
                /\ ~HasSetting(name) => plugins'[name] = plugins[name]
          /\ \A name \in DOMAIN plugins' \ DOMAIN plugins :
                /\ HasSetting(name)
                /\ Metadata(plugins'[name]) = DefaultPlugin
          /\ globalFile' = globalFile
          /\ localFile' = localFile]_vars

\* Some node of the file other than a state node, or some child of a state
\* node with another number of tokens than two, mentions the name.
MentionedOtherwise(file, name) ==
    LET nodes == DataFile(file)
    IN  \E i \in 1..Len(nodes) : \E j \in 1..Len(nodes[i].children) :
            /\ nodes[i].children[j].tokens[1] = name
            /\ \/ nodes[i].tokens[1] # "state"
               \/ Len(nodes[i].children[j].tokens) # 2

\* LoadSettings has run over a loaded plugin with a pending toggle whose
\* name the local file mentions only in an entry it must ignore, next to a
\* record the files do set.
C14_Witness ==
    /\ last.op = "LoadSettings"
    /\ \E name \in DOMAIN plugins :
          /\ Loaded(plugins, name)
          /\ ~HasSetting(name)
          /\ MentionedOtherwise(localFile, name)
          /\ plugins[name].enabled # plugins[name].currentState
    /\ \E name \in DOMAIN plugins : HasSetting(name)

-----------------------------------------------------------------------------
(* Who changes enabled.                                                     *)

\* C15: the enabled field of a record changes only in a LoadSettings step;
\* Load, TogglePlugin and Save never change it and Save changes no field of
\* any record, so a pending change stays pending across Save.
C15_EnabledOnlyByLoadSettings ==
    [][/\ last'.op # "LoadSettings" =>
              \A name \in DOMAIN plugins :
                  /\ name \in DOMAIN plugins'
                  /\ plugins'[name].enabled = plugins[name].enabled
       /\ last'.op = "Save" =>
              /\ plugins' = plugins
              /\ HasChanged(plugins') = HasChanged(plugins)]_vars

\* Save has run after a toggle of a loaded plugin: the file holds the new
\* state and the change is still pending.
C15_Witness ==
    /\ last.op = "Save"
    /\ HasChanged(plugins)
    /\ \E name \in DOMAIN plugins :
          /\ Loaded(plugins, name)
          /\ plugins[name].name # ""
          /\ ~plugins[name].enabled
          /\ plugins[name].currentState
          /\ HasEntry(localFile, name)
          /\ SettingIn(localFile, name)

-----------------------------------------------------------------------------
(* The handle Load returns.                                                 *)

\* C16: every non-null handle returned by Load refers to a valid record,
\* stored in the registry under a key equal to its name.
C16_HandleIsValid ==
    (last.op = "Load" /\ last.ret # Null) =>
        /\ last.ret \in DOMAIN plugins
        /\ plugins[last.ret].name = last.ret
        /\ PluginIsValid(plugins[last.ret])

-----------------------------------------------------------------------------
(* Save followed by LoadSettings.                                           *)

\* The step is a LoadSettings made right after a Save.
SaveThenLoadSettings == last.op = "Save" /\ last'.op = "LoadSettings"

\* C17 as stated: Save and then LoadSettings end in a state where
\* HasChanged() is false, whichever names were toggled before.
C17_SaveReloadSettles ==
    [][SaveThenLoadSettings => ~HasChanged(plugins')]_vars

\* Every record with an empty name has its two flags equal.
PlaceholdersSettled(ps) ==
    \A name \in DOMAIN ps :
        ps[name].name = "" => ps[name].enabled = ps[name].currentState

\* C17 amended: Save and then LoadSettings end in a state where every valid
\* record has enabled equal to currentState, and where HasChanged() is
\* false if no record with an empty name had a pending change before.
C17_SaveReloadSettlesValidRecords ==
    [][SaveThenLoadSettings =>
          /\ \A name \in DOMAIN plugins' :
                PluginIsValid(plugins'[name]) =>
                    plugins'[name].enabled = plugins'[name].currentState
          /\ PlaceholdersSettled(plugins) => ~HasChanged(plugins')]_vars

\* Save and LoadSettings have run in a row over two loaded plugins, one of
\* them saved with a toggle pending, and a toggled placeholder: the plugins
\* are settled, the placeholder is not.
C17_Witness ==
    /\ trip.saved = 2
    /\ last.op = "LoadSettings"
    /\ HasChanged(plugins)
    /\ ~PlaceholdersSettled(plugins)
    /\ \E name \in DOMAIN plugins : \E other \in DOMAIN plugins :
          /\ name # other
          /\ Loaded(plugins, name) /\ plugins[name].name # ""
          /\ Loaded(plugins, other) /\ plugins[other].name # ""
          /\ HasEntry(globalFile, name)
          /\ SettingIn(globalFile, name) # plugins[name].enabled

-----------------------------------------------------------------------------
(* Without TogglePlugin.                                                    *)

\* C18: as long as TogglePlugin has not been called, every record has
\* enabled equal to currentState and HasChanged() is false, in every state
\* that Load, LoadSettings and Save can reach in any order.
C18_NoToggleNoChange ==
    /\ ~HasChanged(plugins)
    /\ \A name \in DOMAIN plugins :
          plugins[name].enabled = plugins[name].currentState

\* LoadSettings has switched off a loaded plugin and created a placeholder
\* that is off, after a Load and a Save.
C18_Witness ==
    /\ last.op = "LoadSettings"
    /\ \E name \in DOMAIN plugins :
          Loaded(plugins, name) /\ ~plugins[name].enabled
    /\ \E name \in DOMAIN plugins :
          plugins[name] = [DefaultPlugin EXCEPT !.enabled = FALSE,
                                                !.currentState = FALSE]
    /\ localFile \notin LocalFiles

-----------------------------------------------------------------------------
(* Who claims a name.                                                       *)

\* What Load stores for a directory it accepts.
RecordOf(p, path) ==
    LET r == PluginOnDisk[path]
    IN  /\ p.name = r.name
        /\ p.path = path
        /\ p.version = r.version
        /\ p.authors = r.authors
        /\ p.tags = r.tags
        /\ p.dependencies = r.dependencies
        /\ p.aboutText = IF r.aboutText # "" THEN r.aboutText
                         ELSE IF PathPlus(path, "about.txt") \in DOMAIN FS
                         THEN FS[PathPlus(path, "about.txt")] ELSE ""

\* C19: a Load of a directory that resolves to a non-empty name and has a
\* valid dependency set, made while no Load has succeeded for that name,
\* returns a handle and stores the directory's path and metadata, whether or
\* not a rejected Load, LoadSettings or TogglePlugin left a placeholder.
C19_PlaceholderDoesNotClaim ==
    [][\A path \in PluginPaths :
          ( /\ LoadOf(path)
            /\ ResolvedName(path) # ""
            /\ ~BadDependencies(path)
            /\ ~Loaded(plugins, ResolvedName(path)) ) =>
              /\ last'.ret = ResolvedName(path)
              /\ RecordOf(plugins'[ResolvedName(path)], path)]_vars

\* Load has populated a record that LoadSettings had switched off and
\* TogglePlugin had switched on again while it was a placeholder.
C19_Witness ==
    /\ last.op = "Load"
    /\ last.ret = "b"
    /\ last.arg = Dir("b")
    /\ ~plugins["b"].enabled
    /\ plugins["b"].currentState
    /\ plugins["b"].version = "2"

=============================================================================
